---- MODULE Spec2Model ----
(***************************************************************************)
(* The insight evaluation pass of src/pages/app.tsx: the effect that maps  *)
(* every stock of the `data` prop to a MappedStock (main holder, dividend  *)
(* total, insight score), sorts the rows by positiveInsights and publishes *)
(* them with setMappedData, and the row click that selects a stock.        *)
(*                                                                         *)
(* JavaScript runs one task at a time and drains the microtask queue after *)
(* each task, so one action is one task together with the promise          *)
(* reactions it triggers.                                                  *)
(*                                                                         *)
(* Spec is the whole page.  The other specifications run the same actions  *)
(* on other inputs: SpecSupersede the runs of the effect while data        *)
(* changes, SpecVerify one run with its verify promises settling one by    *)
(* one, SpecRanking one run over stocks of different scores and            *)
(* SpecProjection one run over one stock with any holders and events.      *)
(*                                                                         *)
(* Strings that the code builds are modelled as tuples of their pieces;    *)
(* names are sequences of one-character strings so that the regular        *)
(* expression of line 75 can be applied to them.                           *)
(***************************************************************************)
EXTENDS Integers, Sequences, FiniteSets, TLC

VARIABLES
    data,          \* the `data` prop of App: a sequence of Stock
    effectPending, \* the effect of lines 50-91 is scheduled and has not run yet
    passes,        \* one record per run of the effect: snapshot (the data of
                   \* its closure), tasks (one per stock, see NewTask), status
                   \* (running, published, or rejected: the async function of
                   \* line 52 ended in an unhandled rejection) and output (the
                   \* array it gave to setMappedData)
    mappedData,    \* React state mappedData (line 48)
    stock,         \* React state stock (line 46): <<>> for null, else <<Stock>>
    publishedBy    \* history: index in passes of the run whose setMappedData came last

vars == <<data, effectPending, passes, mappedData, stock, publishedBy>>

-----------------------------------------------------------------------------
(* Bounds of the model *)

MaxEntities == 3        \* stocks per snapshot in Spec
MaxPasses == 2          \* runs of the effect (1 + changes of the data prop)
MaxVerifyEntities == 1  \* stocks per snapshot in SpecVerify
MaxRankingEntities == 3 \* stocks per snapshot in SpecRanking
MaxHolders == 3         \* holders per stock in SpecProjection
MaxShares == 2          \* totalShares of a holder ranges over 0..MaxShares
MaxEvents == 2          \* events per stock in SpecProjection
AmountDigits == 5       \* an amount n stands for the number n / 10^AmountDigits

-----------------------------------------------------------------------------
(* The registry and the insights *)

insights == <<"DividendConstancy", "PriceToEarnings",
              "ProfitConstancy5Years", "ProfitConstancy10Years">>

NumInsights == Len(insights)

\* What a verify call can end with: the promise fulfils with true or false,
\* or it rejects (the insight throws).
Outcomes == {"true", "false", "reject"}

\* The insight classes are not part of the sources at hand.  An insight is a
\* pure function of the stock (spec 4.1), so the stock carries, in the field
\* insightResults, what the i-th insight answers for it; the field stands for
\* the history, events and priceToEarnings the insights read.
verify(i, s) == s.insightResults[i]

-----------------------------------------------------------------------------
(* Stock values *)

Holder(n, total) == [name |-> n, totalShares |-> total]

StockEvent(d, a, t) == [date |-> d, amount |-> a, type |-> t]

\* A stock without currentState (a malformed document) has defined = FALSE.
StockState(def, p, hs) == [defined |-> def, price |-> p, holders |-> hs]

MkStock(n, b, cs, es, rs) ==
    [name |-> n, business |-> b, currentState |-> cs, events |-> es,
     insightResults |-> rs]

Results(a, b, c, d) == <<a, b, c, d>>

OneHolder == <<Holder("X", 2)>>

StockAB ==
    MkStock(<<"A", "B">>, "bank", StockState(TRUE, 10, OneHolder),
            <<StockEvent(2024, 5, "dividend")>>,
            Results("true", "true", "false", "false"))

StockADotB ==
    MkStock(<<"A", ".", "B">>, "oil", StockState(TRUE, 20, OneHolder),
            <<>>, Results("true", "true", "true", "false"))

StockB3 ==
    MkStock(<<"B", "3">>, "exchange", StockState(TRUE, 30, OneHolder),
            <<>>, Results("false", "true", "true", "false"))

StockMalformed ==
    MkStock(<<"C">>, "retail", StockState(FALSE, 0, <<>>),
            <<>>, Results("true", "true", "true", "true"))

StockRejecting ==
    MkStock(<<"B">>, "mining", StockState(TRUE, 40, OneHolder),
            <<>>, Results("true", "reject", "false", "false"))

Stocks == {StockAB, StockADotB, StockB3, StockMalformed, StockRejecting}

\* The sequences over S of length at most n without repetition.
SeqsUpTo(S, n) ==
    UNION {{q \in [1..m -> S] : \A i, j \in 1..m : q[i] = q[j] => i = j}
           : m \in 0..n}

Snapshots == SeqsUpTo(Stocks, MaxEntities)

\* SpecSupersede: every sequence without repetition of two well-formed
\* stocks whose verify calls all fulfil.
SupersedeStocks == {StockAB, StockB3}

SupersedeSnapshots == SeqsUpTo(SupersedeStocks, Cardinality(SupersedeStocks))

\* SpecVerify: well-formed stocks with every combination of verify outcomes.
VerifyStocks ==
    {MkStock(<<"A", "B">>, "bank", StockState(TRUE, 10, OneHolder), <<>>, rs)
     : rs \in [1..Len(insights) -> Outcomes]}

VerifySnapshots == SeqsUpTo(VerifyStocks, MaxVerifyEntities)

\* SpecRanking: well-formed stocks with 2, 4, 1, 2 and 4 true verdicts.
RankingStock(n, rs) ==
    MkStock(<<n>>, "bank", StockState(TRUE, 10, OneHolder), <<>>, rs)

RankingStocks ==
    {RankingStock("A", Results("true", "true", "false", "false")),
     RankingStock("B", Results("true", "true", "true", "true")),
     RankingStock("C", Results("false", "false", "true", "false")),
     RankingStock("a", Results("false", "true", "false", "true")),
     RankingStock("b", Results("true", "true", "true", "true"))}

RankingSnapshots == SeqsUpTo(RankingStocks, MaxRankingEntities)

\* SpecProjection: one stock with every holder list and every event list
\* within the bounds.  The i-th holder is named by the i-th letter.
HolderNames == <<"A", "B", "C", "D", "E", "F">>

HolderLists ==
    UNION {{[i \in 1..m |-> Holder(HolderNames[i], f[i])]
            : f \in [1..m -> 0..MaxShares]} : m \in 0..MaxHolders}

EventValues ==
    {StockEvent(d, a, t) : d \in {2015, 2025}, a \in {5, 100012},
                           t \in {"dividend", "split"}}

EventLists == UNION {[1..m -> EventValues] : m \in 0..MaxEvents}

AllTrue == [i \in 1..Len(insights) |-> "true"]

ProjectionSnapshots ==
    {<<MkStock(<<"A", "B">>, "bank", StockState(TRUE, 10, hs), es, AllTrue)>>
     : hs \in HolderLists, es \in EventLists}

-----------------------------------------------------------------------------
(* Pure functions of the projection, lines 55-82 *)

InitialHolder == Holder("", 0)

RECURSIVE MainHolderFrom(_, _)
MainHolderFrom(acc, hs) ==
    IF hs = <<>> THEN acc
    ELSE MainHolderFrom(
             IF acc.totalShares < Head(hs).totalShares THEN Head(hs) ELSE acc,
             Tail(hs))

RECURSIVE MainHolderLastWinsFrom(_, _)
MainHolderLastWinsFrom(acc, hs) ==
    IF hs = <<>> THEN acc
    ELSE MainHolderLastWinsFrom(
             IF acc.totalShares <= Head(hs).totalShares THEN Head(hs) ELSE acc,
             Tail(hs))

MainHolderLastWins(hs) == MainHolderLastWinsFrom(InitialHolder, hs)

\* stock.currentState.holders.reduce(..., { name: "", totalShares: 0 })
MainHolder(hs) == MainHolderFrom(InitialHolder, hs)

\* `${mainHolder.name} (${mainHolder.totalShares}%)`
FormatMainHolder(h) == <<h.name, " (", h.totalShares, "%)">>

RECURSIVE SumFrom(_, _)
SumFrom(acc, es) ==
    IF es = <<>> THEN acc ELSE SumFrom(acc + Head(es).amount, Tail(es))

TotalDividendsInWindow(es) ==
    SumFrom(0, SelectSeq(es, LAMBDA e : e.type = "dividend" /\ e.date > 2021))

\* stock.events.reduce((acc, event) => acc + event.amount, 0)
TotalDividends(es) == SumFrom(0, es)

RECURSIVE Pow10(_)
Pow10(n) == IF n = 0 THEN 1 ELSE 10 * Pow10(n - 1)

FractionDigits == 4

\* Number.prototype.toFixed: the sign, then the integer n for which
\* n / 10^digits is closest to |x| (the larger n of two), written with
\* `digits` decimals.  x is given in units of 10^-AmountDigits.
toFixed(x, digits) ==
    LET m == IF x < 0 THEN -x ELSE x
        unit == Pow10(AmountDigits - digits)
        n == (2 * m + unit) \div (2 * unit)
    IN  <<IF x < 0 THEN "-" ELSE "", n \div Pow10(digits), ".">>
        \o [i \in 1..digits |-> (n \div Pow10(digits - i)) % 10]

WordChars == {"A", "B", "C", "a", "b", "3", "_"}
SpaceChars == {" "}

\* stock.name.replace(/[^\w\s]/gi, ""): every character that is neither a
\* word character nor white space is removed.
StripSpecial(name) ==
    SelectSeq(name, LAMBDA c : c \in WordChars \cup SpaceChars)

Truthy(res) == res = "true"

CountNonPositive(rs) == Len(SelectSeq(rs, LAMBDA r : ~Truthy(r)))

\* (await Promise.all(...)).filter((res) => res).length
CountPositive(rs) == Len(SelectSeq(rs, Truthy))

\* `${positiveInsights}/${insights.length}`
InsightsScore(positiveInsights) == <<positiveInsights, "/", NumInsights>>

\* Lines 71-82: the row built after the await, from the verdicts it yielded.
MapStock(s, verdicts) ==
    LET positiveInsights == CountPositive(verdicts)
    IN  [name |-> StripSpecial(s.name),
         business |-> s.business,
         price |-> s.currentState.price,
         mainHolder |-> FormatMainHolder(MainHolder(s.currentState.holders)),
         totalDividendsLast5Years |->
             toFixed(TotalDividends(s.events), FractionDigits),
         insightsScore |-> InsightsScore(positiveInsights),
         positiveInsights |-> positiveInsights]

-----------------------------------------------------------------------------
(* Array.prototype.sort with the comparator of line 88 *)

CompareAscending(a, b) == a.positiveInsights - b.positiveInsights

\* (a, b) => b.positiveInsights - a.positiveInsights
Compare(a, b) == b.positiveInsights - a.positiveInsights

\* The sort is stable: x goes after every element that does not sort after it.
RECURSIVE InsertSorted(_, _)
InsertSorted(s, x) ==
    IF s = <<>> THEN <<x>>
    ELSE IF Compare(Head(s), x) <= 0
         THEN <<Head(s)>> \o InsertSorted(Tail(s), x)
         ELSE <<x>> \o s

RECURSIVE SortFrom(_, _)
SortFrom(acc, rest) ==
    IF rest = <<>> THEN acc
    ELSE SortFrom(InsertSorted(acc, Head(rest)), Tail(rest))

ArraySort(arr) == SortFrom(<<>>, arr)

SetMappedDataMerged(prev, next) == prev \o next

\* The setter of useState replaces the state by its argument.
SetMappedData(prev, next) == next

-----------------------------------------------------------------------------
(* One run of the effect: the promises of lines 53-69 *)

Indices(s) == 1..Len(s)

\* The callback of data.map up to its await (lines 55-69).  Reading
\* currentState.holders of a stock without currentState throws, the async
\* callback returns a rejected promise and no verify is called.  Otherwise
\* every insight's verify is called and Promise.all waits for them: `values`
\* is its array of results, `returned` what each verify call ended with,
\* `awaited` the array the await yielded and `value` the row the callback
\* fulfilled with (<<>> while there is none).
NewTask(s) ==
    [state |-> IF s.currentState.defined THEN "pending" ELSE "rejected",
     called |-> s.currentState.defined,
     returned |-> [i \in Indices(insights) |-> "pending"],
     values |-> [i \in Indices(insights) |-> "pending"],
     awaited |-> <<>>,
     value |-> <<>>]

\* Promise.all keeps each result at the index of its promise.
PromiseAllStore(values, i, v) == [values EXCEPT ![i] = v]

\* The verify promise of insight i settles, for the callback of stock s.  A
\* rejection rejects Promise.all and with it the callback's promise; the
\* last fulfilment fulfils Promise.all and the callback continues (lines
\* 69-84).  A promise that is settled stays as it is.
SettleVerify(task, s, i) ==
    LET out == verify(i, s)
        returned1 == [task.returned EXCEPT ![i] = out]
        values1 == PromiseAllStore(task.values, i, out)
    IN  IF out = "reject"
        THEN [task EXCEPT !.returned = returned1,
                          !.state = IF @ = "pending" THEN "rejected" ELSE @]
        ELSE IF task.state = "pending"
                /\ \A j \in Indices(values1) : values1[j] # "pending"
             THEN [task EXCEPT !.returned = returned1,
                               !.values = values1,
                               !.state = "fulfilled",
                               !.awaited = values1,
                               !.value = <<MapStock(s, values1)>>]
             ELSE [task EXCEPT !.returned = returned1, !.values = values1]

RECURSIVE SettleAllFrom(_, _, _)
SettleAllFrom(task, s, i) ==
    IF i > NumInsights THEN task
    ELSE SettleAllFrom(SettleVerify(task, s, i), s, i + 1)

\* The outer Promise.all (line 53) settles when a callback's promise does:
\* it rejects with the first rejection, and the async function of line 52
\* ends rejected with nothing to catch it; it fulfils when every callback
\* has, with the rows in the order of data, and line 88 sorts and publishes.
AfterTask(p, k, task) ==
    LET pass == passes[p]
        tasks1 == [pass.tasks EXCEPT ![k] = task]
        rejectNow == pass.status = "running" /\ task.state = "rejected"
        publishNow == pass.status = "running"
                      /\ \A j \in Indices(tasks1) : tasks1[j].state = "fulfilled"
        sorted == ArraySort([j \in Indices(tasks1) |-> tasks1[j].value[1]])
    IN  /\ passes' = [passes EXCEPT ![p] =
               [pass EXCEPT !.tasks = tasks1,
                            !.status = IF publishNow THEN "published"
                                       ELSE IF rejectNow THEN "rejected" ELSE @,
                            !.output = IF publishNow THEN sorted ELSE @]]
        /\ mappedData' = IF publishNow THEN SetMappedData(mappedData, sorted)
                         ELSE mappedData
        /\ publishedBy' = IF publishNow THEN p ELSE publishedBy

-----------------------------------------------------------------------------
(* Actions *)

\* React.useEffect(..., [data]), lines 50-91: data is always an array here
\* (getStaticProps, line 23), so the test of line 51 passes.
RunEffect ==
    /\ effectPending
    /\ LET p == Len(passes) + 1
           tasks == [k \in Indices(data) |-> NewTask(data[k])]
           status == IF \E k \in Indices(tasks) : tasks[k].state = "rejected"
                     THEN "rejected"
                     ELSE IF tasks = <<>> THEN "published" ELSE "running"
           sorted == ArraySort(<<>>)
       IN  /\ passes' = Append(passes,
                   [snapshot |-> data, tasks |-> tasks, status |-> status,
                    output |-> sorted])
           /\ mappedData' = IF status = "published"
                            THEN SetMappedData(mappedData, sorted)
                            ELSE mappedData
           /\ publishedBy' = IF status = "published" THEN p ELSE publishedBy
    /\ effectPending' = FALSE
    /\ UNCHANGED <<data, stock>>

\* One verify promise settles (line 69).
VerifySettles(p, k, i) ==
    /\ p \in Indices(passes)
    /\ k \in Indices(passes[p].tasks)
    /\ passes[p].tasks[k].called
    /\ passes[p].tasks[k].returned[i] = "pending"
    /\ AfterTask(p, k, SettleVerify(passes[p].tasks[k], passes[p].snapshot[k], i))
    /\ UNCHANGED <<data, effectPending, stock>>

\* All verify promises of one stock settle, in the order of the registry.
\* SpecVerify explores their other orders.
EntitySettles(p, k) ==
    /\ p \in Indices(passes)
    /\ k \in Indices(passes[p].tasks)
    /\ passes[p].tasks[k].called
    /\ \A i \in Indices(insights) : passes[p].tasks[k].returned[i] = "pending"
    /\ AfterTask(p, k, SettleAllFrom(passes[p].tasks[k], passes[p].snapshot[k], 1))
    /\ UNCHANGED <<data, effectPending, stock>>

\* The page is rendered with a new data prop: the effect is scheduled again.
ChangeData(d) ==
    /\ ~effectPending
    /\ Len(passes) < MaxPasses
    /\ data' = d
    /\ effectPending' = TRUE
    /\ UNCHANGED <<passes, mappedData, stock, publishedBy>>

FindByName(list, name) ==
    IF \E j \in Indices(list) : list[j].name = name
    THEN <<list[CHOOSE j \in Indices(list) :
                  /\ list[j].name = name
                  /\ \A h \in 1..(j - 1) : list[h].name # name]>>
    ELSE <<>>

\* onRowClick, lines 141-144, on row r of the table.
RowClick(r) ==
    /\ r \in Indices(mappedData)
    /\ LET found == FindByName(data, mappedData[r].name)
       IN  stock' = IF found # <<>> THEN found ELSE stock
    /\ UNCHANGED <<data, effectPending, passes, mappedData, publishedBy>>

\* The X of the insights panel, lines 152-154.
CloseInsights ==
    /\ stock' = <<>>
    /\ UNCHANGED <<data, effectPending, passes, mappedData, publishedBy>>

-----------------------------------------------------------------------------
(* Specifications *)

InitWith(snapshots) ==
    /\ data \in snapshots
    /\ effectPending = TRUE
    /\ passes = <<>>
    /\ mappedData = <<>>
    /\ stock = <<>>
    /\ publishedBy = 0

Init == InitWith(Snapshots)

Next ==
    \/ RunEffect
    \/ \E p \in Indices(passes) : \E k \in Indices(passes[p].tasks) :
           EntitySettles(p, k)
    \/ \E d \in Snapshots : ChangeData(d)
    \/ \E r \in Indices(mappedData) : RowClick(r)
    \/ CloseInsights

\* The whole page: the data prop changes while runs of the effect are pending.
Spec == Init /\ [][Next]_vars

InitSupersede == InitWith(SupersedeSnapshots)

NextSupersede ==
    \/ RunEffect
    \/ \E p \in Indices(passes) : \E k \in Indices(passes[p].tasks) :
           EntitySettles(p, k)
    \/ \E d \in SupersedeSnapshots : ChangeData(d)

\* The runs of the effect while the data prop changes, without the clicks.
SpecSupersede == InitSupersede /\ [][NextSupersede]_vars

InitVerify == InitWith(VerifySnapshots)

NextVerify ==
    \/ RunEffect
    \/ \E p \in Indices(passes) : \E k \in Indices(passes[p].tasks) :
           \E i \in Indices(insights) : VerifySettles(p, k, i)

\* One run of the effect, the verify promises settling one by one in any order.
SpecVerify == InitVerify /\ [][NextVerify]_vars

\* One run of the effect, the callbacks settling in any order.
NextPass ==
    \/ RunEffect
    \/ \E p \in Indices(passes) : \E k \in Indices(passes[p].tasks) :
           EntitySettles(p, k)

InitRanking == InitWith(RankingSnapshots)

\* One run of the effect over stocks of different scores, for the ranking.
SpecRanking == InitRanking /\ [][NextPass]_vars

InitProjection == InitWith(ProjectionSnapshots)

\* One run of the effect over one stock, for the derived fields of its row.
SpecProjection == InitProjection /\ [][NextPass]_vars

-----------------------------------------------------------------------------
(* Properties *)

\* The callbacks of all runs: <<run, index of the stock in its data>>.
Tasks ==
    UNION {{<<p, k>> : k \in Indices(passes[p].tasks)} : p \in Indices(passes)}

TaskOf(pk) == passes[pk[1]].tasks[pk[2]]
StockOf(pk) == passes[pk[1]].snapshot[pk[2]]

\* Every verify call of the task has settled.
VerifiesSettled(task) ==
    task.called /\ \A i \in Indices(insights) : task.returned[i] # "pending"

TrueVerdicts(task) == {i \in Indices(insights) : task.returned[i] = "true"}

Range(s) == {s[i] : i \in Indices(s)}

\* C1: when a verify call of a stock rejects, the stock still gets a row in
\* the published collection, and the row counts the true verdicts of the
\* other insights: once all verify calls of a run over well-formed stocks
\* have settled, the run has published and the collection holds such a row.
C1_FailedInsightIsolated ==
    \A pk \in Tasks :
        (/\ \A j \in Indices(passes[pk[1]].tasks) :
                VerifiesSettled(passes[pk[1]].tasks[j])
         /\ \E i \in Indices(insights) : TaskOf(pk).returned[i] = "reject")
        => /\ passes[pk[1]].status = "published"
           /\ \E r \in Indices(mappedData) :
                  /\ mappedData[r].name = StripSpecial(StockOf(pk).name)
                  /\ mappedData[r].positiveInsights
                         = Cardinality(TrueVerdicts(TaskOf(pk)))

\* C2: when one stock of a batch is malformed or its evaluation fails, every
\* other stock of the batch still appears in the collection the run
\* publishes and no error escapes the run: once every callback of a run has
\* settled, the run has published, and its collection holds the row of every
\* stock whose callback fulfilled.
C2_BatchSurvivesFailure ==
    \A pk \in Tasks :
        (/\ \A j \in Indices(passes[pk[1]].tasks) :
                passes[pk[1]].tasks[j].state # "pending"
         /\ TaskOf(pk).state = "fulfilled")
        => /\ passes[pk[1]].status = "published"
           /\ TaskOf(pk).value[1] \in Range(passes[pk[1]].output)

\* The rows of s with the given positiveInsights, in their order in s.
WithCount(s, c) == SelectSeq(s, LAMBDA row : row.positiveInsights = c)

\* The rows the callbacks of run p fulfilled with, in the order of its data.
RowsOf(p) == [k \in Indices(passes[p].tasks) |-> passes[p].tasks[k].value[1]]

\* C3: the published collection is the stable sort of the rows of a run by
\* positiveInsights descending: it has the rows of the run (for every count,
\* the rows with that count, in their input order) and no row has fewer
\* positiveInsights than the row after it.
C3_StableSortDescending ==
    publishedBy # 0 =>
        /\ Len(mappedData) = Len(RowsOf(publishedBy))
        /\ \A c \in 0..Len(insights) :
               WithCount(mappedData, c) = WithCount(RowsOf(publishedBy), c)
        /\ \A r \in 1..(Len(mappedData) - 1) :
               mappedData[r].positiveInsights >= mappedData[r + 1].positiveInsights

\* Witness of C3: the rows with 2, 4 and 2 positiveInsights were published
\* as 4, 2, 2, the two rows with 2 in their input order.
C3_Witness ==
    /\ publishedBy # 0
    /\ Len(mappedData) = 3
    /\ RowsOf(publishedBy)[1].positiveInsights = 2
    /\ RowsOf(publishedBy)[2].positiveInsights = 4
    /\ RowsOf(publishedBy)[3].positiveInsights = 2
    /\ RowsOf(publishedBy)[1] # RowsOf(publishedBy)[3]
    /\ mappedData = <<RowsOf(publishedBy)[2], RowsOf(publishedBy)[1],
                      RowsOf(publishedBy)[3]>>

\* The row the projection derives from stock s.
ExpectedRow(s) == MapStock(s, [i \in Indices(insights) |-> verify(i, s)])

Occurrences(s, x) == Cardinality({i \in Indices(s) : s[i] = x})

\* s holds exactly the rows derived from the stocks of snapshot d.
DerivedFrom(s, d) ==
    /\ Len(s) = Len(d)
    /\ \A x \in Range(s) \cup {ExpectedRow(d[k]) : k \in Indices(d)} :
           Occurrences(s, x) = Occurrences([k \in Indices(d) |-> ExpectedRow(d[k])], x)

\* C4: every published collection is computed from exactly one snapshot: it
\* is the initial empty collection, or its rows are exactly the rows derived
\* from the stocks of the snapshot of one run of the effect.
C4_OneSnapshot ==
    \/ publishedBy = 0 /\ mappedData = <<>>
    \/ /\ publishedBy \in Indices(passes)
       /\ DerivedFrom(mappedData, passes[publishedBy].snapshot)

\* Witness of C4: the data changed while a run was pending with part of its
\* rows computed, and the run for the new, different data has published.
C4_Witness ==
    /\ Len(passes) = 2
    /\ passes[1].status = "running"
    /\ \E k \in Indices(passes[1].tasks) : passes[1].tasks[k].state = "fulfilled"
    /\ publishedBy = 2
    /\ mappedData # <<>>
    /\ Range(passes[1].snapshot) # Range(passes[2].snapshot)

\* C5: evaluating a stock yields exactly one verdict per insight, the i-th
\* being the result of the i-th insight, in every order of completion: once
\* the verify calls of a stock have settled, the callback has received a
\* list of Len(insights) verdicts whose i-th entry is what verify i ended with.
C5_OneVerdictPerInsight ==
    \A pk \in Tasks :
        VerifiesSettled(TaskOf(pk))
        => /\ Len(TaskOf(pk).awaited) = Len(insights)
           /\ \A i \in Indices(insights) :
                  TaskOf(pk).awaited[i] = TaskOf(pk).returned[i]

\* When no verify call rejects, the list the callback receives keeps the
\* order of the registry, whatever the order of completion.
RegistryOrderKept ==
    \A pk \in Tasks :
        TaskOf(pk).awaited # <<>> =>
            /\ Len(TaskOf(pk).awaited) = Len(insights)
            /\ \A i \in Indices(insights) :
                   TaskOf(pk).awaited[i] = TaskOf(pk).returned[i]

\* The index of the first holder with the largest totalShares of hs.
FirstMaxIndex(hs) ==
    CHOOSE i \in Indices(hs) :
        /\ \A j \in Indices(hs) : hs[j].totalShares <= hs[i].totalShares
        /\ \A j \in 1..(i - 1) : hs[j].totalShares < hs[i].totalShares

\* The tasks that fulfilled with a row.
Fulfilled == {pk \in Tasks : TaskOf(pk).value # <<>>}

\* C6 as stated: for every holder list, the main holder is the first holder
\* whose totalShares equals the maximum of the list.
C6_FirstMaxOfEveryList ==
    \A pk \in Fulfilled :
        LET hs == StockOf(pk).currentState.holders
        IN  hs # <<>> =>
                TaskOf(pk).value[1].mainHolder
                    = FormatMainHolder(hs[FirstMaxIndex(hs)])

\* C6 amended: for a holder list with a holder of totalShares > 0 the main
\* holder is the first holder whose totalShares equals the maximum of the
\* list; for any other list it is the placeholder with the empty name and
\* 0 shares.
C6_FirstMaxAboveZero ==
    \A pk \in Fulfilled :
        LET hs == StockOf(pk).currentState.holders
        IN  TaskOf(pk).value[1].mainHolder
                = IF \E j \in Indices(hs) : hs[j].totalShares > 0
                  THEN FormatMainHolder(hs[FirstMaxIndex(hs)])
                  ELSE <<"", " (", 0, "%)">>

\* Witness of C6: a row whose main holder is the second holder, tied with
\* the third at the maximum.
C6_Witness ==
    \E pk \in Fulfilled :
        LET hs == StockOf(pk).currentState.holders
        IN  /\ Len(hs) = 3
            /\ hs[1].totalShares < hs[2].totalShares
            /\ hs[2].totalShares = hs[3].totalShares
            /\ TaskOf(pk).value[1].mainHolder = FormatMainHolder(hs[2])

\* C7: in every row, positiveInsights is the number of true verdicts of the
\* stock, it lies in 0..Len(insights), and insightsScore is positiveInsights,
\* "/" and the number of insights.
C7_ScoreOfTrueVerdicts ==
    /\ \A pk \in Fulfilled :
           TaskOf(pk).value[1].positiveInsights
               = Cardinality(TrueVerdicts(TaskOf(pk)))
    /\ \A row \in {TaskOf(pk).value[1] : pk \in Fulfilled} \cup Range(mappedData) :
           /\ row.positiveInsights \in 0..Len(insights)
           /\ row.insightsScore = <<row.positiveInsights, "/", Len(insights)>>

\* Witness of C7: a published row of a stock with true and false verdicts.
C7_Witness ==
    \E pk \in Fulfilled :
        /\ TaskOf(pk).value[1] \in Range(mappedData)
        /\ TaskOf(pk).returned[1] = "false"
        /\ TaskOf(pk).returned[2] = "true"
        /\ TaskOf(pk).returned[4] = "true"
        /\ TaskOf(pk).value[1].insightsScore[1] \in 2..3

RECURSIVE AmountOfAll(_)
AmountOfAll(es) ==
    IF es = <<>> THEN 0
    ELSE AmountOfAll(SubSeq(es, 1, Len(es) - 1)) + es[Len(es)].amount

\* C8: totalDividendsLast5Years is the sum of amount over all events of the
\* stock, whatever their date and type, written with FractionDigits
\* decimals; for a stock without events it is 0.0000.
C8_SumOfAllEvents ==
    \A pk \in Fulfilled :
        /\ TaskOf(pk).value[1].totalDividendsLast5Years
               = toFixed(AmountOfAll(StockOf(pk).events), FractionDigits)
        /\ StockOf(pk).events = <<>> =>
               TaskOf(pk).value[1].totalDividendsLast5Years
                   = <<"", 0, ".", 0, 0, 0, 0>>

\* Witness of C8: a row whose total counts an event older than five years
\* and an event that is no dividend.
C8_Witness ==
    \E pk \in Fulfilled :
        LET es == StockOf(pk).events
        IN  /\ Len(es) = 2
            /\ es[1].date = 2015 /\ es[1].type = "dividend" /\ es[1].amount = 100012
            /\ es[2].date = 2025 /\ es[2].type = "split" /\ es[2].amount = 5
            /\ TaskOf(pk).value[1].totalDividendsLast5Years
                   = <<"", 1, ".", 0, 0, 0, 2>>

Finished(p) == passes[p].status \in {"published", "rejected"}

\* C9: when the data changed while a run was pending, then once both runs
\* have finished the published collection is the one of the run for the
\* newer data.
C9_NewestRunWins ==
    \A p, q \in Indices(passes) :
        (p < q /\ q = Len(passes) /\ ~effectPending
         /\ Finished(p) /\ Finished(q) /\ passes[q].status = "published")
        => mappedData = passes[q].output

\* The stocks from which row r of the published collection was computed.
RowOrigins(r) ==
    {passes[publishedBy].snapshot[k] : k \in
        {k \in Indices(passes[publishedBy].tasks) :
            passes[publishedBy].tasks[k].value = <<mappedData[r]>>}}

\* C10: a click on a row sets the detail-view stock to the stock from which
\* the row was computed (stated for the rows computed from the current data).
C10_RowClickSelectsOrigin ==
    [][\A r \in Indices(mappedData) :
           (data = passes[publishedBy].snapshot /\ RowClick(r))
           => stock' \in {<<s>> : s \in RowOrigins(r)}]_vars

====
